---- MODULE Spec2Model ----
(***************************************************************************)
(* The data-preparation cells of the notebook w2v_hw.ipynb: vocabulary     *)
(* selection (Counter.most_common), filtering of the raw text, the         *)
(* word -> index mapping and the loop that builds the (context, target)    *)
(* training pairs X, Y.                                                    *)
(*                                                                         *)
(* Python lists are sequences; a Python index p is the TLA+ index p + 1.   *)
(* Tokens are the numbers 1..NumWords.  A Python expression that may raise *)
(* is an operator returning [ok, val]: ok = FALSE stands for the raise.    *)
(***************************************************************************)
EXTENDS Integers, Sequences, FiniteSets, TLC

\* Bounds of the model.
NumWords == 3
MaxLen == 5
MaxTopN == 3
MaxW == 2
MaxBatch == 3
MaxEpochs == 2
MaxClosest == 3
MaxScore == 1
NumCallers == 2

Words == 1..NumWords
TopNs == (0 - 1)..MaxTopN
Radii == 1..MaxW
BatchSizes == 0..MaxBatch
Callers == 1..NumCallers

VARIABLES
  raw_text,        \* the token stream of cell 2
  topn,            \* the argument of most_common (1000 in the notebook)
  CONTEXT_SIZE,    \* the window radius (2 in the notebook)
  defined,         \* the names bound in the notebook's namespace
  raw_text_count,  \* Counter(raw_text)
  vocab,           \* the set of selected words
  vocab_size,
  text,            \* the filtered text
  word_to_ix,      \* dict word -> index
  X,               \* list of contexts (lists of indexes)
  Y,               \* list of targets (indexes)
  i,               \* the loop variable of the dataset-building loop
  reads,           \* history: per appended context, the centre i and the positions i + j read
  pc,              \* the statement about to run
  err,             \* the exception that stopped the run, or "none"
  run,             \* which run of the notebook this is (1 or 2)
  prevX,           \* the X the previous run ended with
  prevY,           \* the Y the previous run ended with
  callers,         \* per caller of data_batcher: its generator and where its for loop is
  num_epochs,      \* train_cbow's argument
  batch_size,      \* train_cbow's argument
  epoch,           \* train_cbow's loop variable: the next value range(num_epochs) gives at the loop head, the current one inside the loop
  tpc,             \* the statement of train_cbow about to run
  losses,          \* train_cbow's list of recorded losses
  oplog,           \* history: the calls train_cbow made on the model and the optimizer
  query,           \* closest_n_words' argument word
  topk,            \* closest_n_words' argument n
  sim,             \* the cosine score of each vocabulary word against the query word
  todo,            \* the words `for v in vocab` has not visited yet
  scores,          \* closest_n_words' list of (score, word)
  n_closest,       \* closest_n_words' result
  cpc              \* the statement of closest_n_words about to run

rerunVars == <<run, prevX, prevY>>
trainVars == <<num_epochs, batch_size, epoch, tpc, losses, oplog>>
closestVars == <<query, topk, sim, todo, scores, n_closest, cpc>>
laterVars == <<rerunVars, callers, trainVars, closestVars>>

vars == <<raw_text, topn, CONTEXT_SIZE, defined, raw_text_count, vocab, vocab_size,
          text, word_to_ix, X, Y, i, reads, pc, err, laterVars>>

inputs == <<raw_text, topn, CONTEXT_SIZE>>
vocabVars == <<raw_text_count, vocab, vocab_size>>
dataVars == <<X, Y, i, reads>>

----------------------------------------------------------------------------
\* Generic helpers.

Range(s) == {s[k] : k \in DOMAIN s}

Min(a, b) == IF a < b THEN a ELSE b

Max(a, b) == IF a > b THEN a ELSE b

SeqsUpTo(S, n) == UNION {[1..k -> S] : k \in 0..n}

\* All listings of the finite set S, each element once.
Perms(S) == {s \in [1..Cardinality(S) -> S] : \A a, b \in DOMAIN s : a # b => s[a] # s[b]}

Raise == [ok |-> FALSE, val |-> <<>>]

Return(v) == [ok |-> TRUE, val |-> v]

\* Python's range(a, b) as a list.
range(a, b) == [k \in 1..Max(0, b - a) |-> a + (k - 1)]

\* Python's list[p]: negative p counts from the end, out of range raises IndexError.
PyGet(list, p) ==
  IF 0 <= p /\ p < Len(list) THEN Return(list[p + 1])
  ELSE IF p < 0 /\ 0 - Len(list) <= p THEN Return(list[Len(list) + p + 1])
  ELSE Raise

----------------------------------------------------------------------------
\* Cell 6: the vocabulary.

\* Counter(raw_text): word -> number of occurrences.
Counter(tokens) ==
  [w \in Range(tokens) |-> Cardinality({p \in DOMAIN tokens : tokens[p] = w})]

\* Counter.most_common(n): the n first (word, count) pairs by decreasing count.
\* Equal counts keep the dict's iteration order, which Python 3.5 leaves
\* arbitrary: every order of the ties is a possible result.  n <= 0 gives [].
most_common_BySeenOrder(cnt, n) ==
  {[k \in 1..Min(Max(n, 0), Cardinality(DOMAIN cnt)) |-> <<s[k], cnt[s[k]]>>] :
     s \in {p \in Perms(DOMAIN cnt) : \A a, b \in DOMAIN p : a < b => p[a] < p[b]}}

most_common(cnt, n) ==
  {[k \in 1..Min(Max(n, 0), Cardinality(DOMAIN cnt)) |-> <<s[k], cnt[s[k]]>>] :
     s \in {p \in Perms(DOMAIN cnt) : \A a, b \in DOMAIN p : a < b => cnt[p[a]] >= cnt[p[b]]}}

\* list(zip(*pairs))[0]: the tuple of the words; IndexError when pairs is empty.
ZipFirst_NoRaise(pairs) ==
  Return([k \in DOMAIN pairs |-> pairs[k][1]])

ZipFirst(pairs) ==
  IF pairs = <<>> THEN Raise ELSE Return([k \in DOMAIN pairs |-> pairs[k][1]])

BuildVocabulary ==
  /\ pc = "vocab"
  /\ raw_text_count' = Counter(raw_text)
  /\ \E pairs \in most_common(Counter(raw_text), topn) :
       LET z == ZipFirst(pairs) IN
         IF z.ok
           THEN /\ vocab' = Range(z.val)
                /\ vocab_size' = Cardinality(Range(z.val))
                /\ defined' = defined \cup {"raw_text_count", "vocab", "vocab_size"}
                /\ pc' = "filter"
                /\ err' = "none"
           ELSE /\ defined' = defined \cup {"raw_text_count"}
                /\ pc' = "failed"
                /\ err' = "IndexError"
                /\ UNCHANGED <<vocab, vocab_size>>
  /\ UNCHANGED <<inputs, text, word_to_ix, dataVars, laterVars>>

----------------------------------------------------------------------------
\* Cell 8: the filtered text.

RECURSIVE FilterTokens_UntilMiss(_, _)
FilterTokens_UntilMiss(tokens, voc) ==
  IF tokens = <<>> \/ Head(tokens) \notin voc THEN <<>>
  ELSE <<Head(tokens)>> \o FilterTokens_UntilMiss(Tail(tokens), voc)

FilterTokens_KeepAll(tokens, voc) == tokens

\* [r for r in raw_text if r in vocab]
RECURSIVE FilterTokens(_, _)
FilterTokens(tokens, voc) ==
  IF tokens = <<>> THEN <<>>
  ELSE (IF Head(tokens) \in voc THEN <<Head(tokens)>> ELSE <<>>)
         \o FilterTokens(Tail(tokens), voc)

FilterText ==
  /\ pc = "filter"
  /\ text' = FilterTokens(raw_text, vocab)
  /\ defined' = defined \cup {"text"}
  /\ pc' = "index"
  /\ UNCHANGED <<inputs, vocabVars, word_to_ix, dataVars, err, laterVars>>

----------------------------------------------------------------------------
\* Cell 14: the word -> index mapping and the dataset.

\* {word: i for i, word in enumerate(vocab)}: the set is enumerated in an
\* order Python does not fix; `order` is that enumeration.
Enumerate(order) ==
  [w \in Range(order) |-> (CHOOSE k \in DOMAIN order : order[k] = w) - 1]

\* range(CONTEXT_SIZE, len(text) - CONTEXT_SIZE)
LoopStart_Zero(radius) == 0

LoopStart(radius) == radius

LoopStop_NoMargin(txt, radius) == Len(txt)

LoopStop(txt, radius) == Len(txt) - radius

BuildWordToIx ==
  /\ pc = "index"
  /\ \E order \in Perms(vocab) : word_to_ix' = Enumerate(order)
  /\ X' = <<>>
  /\ Y' = <<>>
  /\ reads' = <<>>
  /\ i' = LoopStart(CONTEXT_SIZE)
  /\ defined' = defined \cup {"word_to_ix", "X", "Y"}
  /\ pc' = "loop"
  /\ UNCHANGED <<inputs, vocabVars, text, err, laterVars>>

\* range(-CONTEXT_SIZE, CONTEXT_SIZE+1) if not j==0
ContextOffsets_WithCentre(radius) == range(0 - radius, radius + 1)

ContextOffsets_HalfOpen(radius) == SelectSeq(range(0 - radius, radius), LAMBDA j : j # 0)

ContextOffsets(radius) == SelectSeq(range(0 - radius, radius + 1), LAMBDA j : j # 0)

\* The indexes i + j read for the centre c.
ContextPositions(c, radius) ==
  [k \in DOMAIN ContextOffsets(radius) |-> c + ContextOffsets(radius)[k]]

\* [text[i + j] for j in ...]: raises when some text[i + j] does.
Context(txt, c, radius) ==
  LET pos == ContextPositions(c, radius) IN
    IF \A k \in DOMAIN pos : PyGet(txt, pos[k]).ok
      THEN Return([k \in DOMAIN pos |-> PyGet(txt, pos[k]).val])
      ELSE Raise

\* word_to_ix[w]: KeyError when w is no key.
Lookup_Default(w2i, w) == IF w \in DOMAIN w2i THEN Return(w2i[w]) ELSE Return(0)

Lookup(w2i, w) == IF w \in DOMAIN w2i THEN Return(w2i[w]) ELSE Raise

\* [word_to_ix[w] for w in context]
make_context_vector(context, w2i) ==
  IF \A k \in DOMAIN context : Lookup(w2i, context[k]).ok
    THEN Return([k \in DOMAIN context |-> Lookup(w2i, context[k]).val])
    ELSE Raise

Fail(e) ==
  /\ pc' = "failed"
  /\ err' = e

\* One iteration of the for loop.
LoopStep ==
  /\ pc = "loop"
  /\ i < LoopStop(text, CONTEXT_SIZE)
  /\ LET context == Context(text, i, CONTEXT_SIZE)
         target == PyGet(text, i)
     IN
       IF ~context.ok \/ ~target.ok
         THEN Fail("IndexError") /\ UNCHANGED dataVars
       ELSE IF ~make_context_vector(context.val, word_to_ix).ok
         THEN Fail("KeyError") /\ UNCHANGED dataVars
       ELSE IF ~Lookup(word_to_ix, target.val).ok
         THEN /\ Fail("KeyError")
              /\ X' = Append(X, make_context_vector(context.val, word_to_ix).val)
              /\ reads' = Append(reads, [centre |-> i,
                                         positions |-> ContextPositions(i, CONTEXT_SIZE)])
              /\ UNCHANGED <<Y, i>>
       ELSE /\ X' = Append(X, make_context_vector(context.val, word_to_ix).val)
            /\ Y' = Append(Y, Lookup(word_to_ix, target.val).val)
            /\ reads' = Append(reads, [centre |-> i,
                                       positions |-> ContextPositions(i, CONTEXT_SIZE)])
            /\ i' = i + 1
            /\ UNCHANGED <<pc, err>>
  /\ UNCHANGED <<inputs, defined, vocabVars, text, word_to_ix, laterVars>>

\* The loop's range is exhausted; X and Y become numpy arrays of the same entries.
ToNumpy ==
  /\ pc = "loop"
  /\ i >= LoopStop(text, CONTEXT_SIZE)
  /\ pc' = "done"
  /\ UNCHANGED <<inputs, defined, vocabVars, text, word_to_ix, dataVars, err, laterVars>>

----------------------------------------------------------------------------
\* The notebook run top to bottom on any raw text, vocabulary size and radius.

\* Nothing but the data-preparation cells has run.
FirstRun ==
  /\ run = 1
  /\ prevX = <<>>
  /\ prevY = <<>>

NoCallers == callers = <<>>

TrainIdle ==
  /\ num_epochs = 0
  /\ batch_size = 0
  /\ epoch = 0
  /\ tpc = "idle"
  /\ losses = <<>>
  /\ oplog = <<>>

ClosestIdle ==
  /\ query = 0
  /\ topk = 0
  /\ sim = <<>>
  /\ todo = {}
  /\ scores = <<>>
  /\ n_closest = <<>>
  /\ cpc = "idle"

Init ==
  /\ raw_text \in SeqsUpTo(Words, MaxLen)
  /\ topn \in TopNs
  /\ CONTEXT_SIZE \in Radii
  /\ defined = {"raw_text"}
  /\ raw_text_count = <<>>
  /\ vocab = {}
  /\ vocab_size = 0
  /\ text = <<>>
  /\ word_to_ix = <<>>
  /\ X = <<>>
  /\ Y = <<>>
  /\ i = 0
  /\ reads = <<>>
  /\ pc = "vocab"
  /\ err = "none"
  /\ FirstRun
  /\ NoCallers
  /\ TrainIdle
  /\ ClosestIdle

Next ==
  \/ BuildVocabulary
  \/ FilterText
  \/ BuildWordToIx
  \/ LoopStep
  \/ ToNumpy

Spec == Init /\ [][Next]_vars

\* The dataset-building loop applied to any text and any word -> index
\* mapping, including texts holding words the mapping does not know.
IdMappings == UNION {{Enumerate(order) : order \in Perms(S)} : S \in SUBSET Words}

InitExamples ==
  /\ text \in SeqsUpTo(Words, MaxLen)
  /\ word_to_ix \in IdMappings
  /\ CONTEXT_SIZE \in Radii
  /\ raw_text = text
  /\ topn = Cardinality(DOMAIN word_to_ix)
  /\ defined = {"raw_text", "raw_text_count", "vocab", "vocab_size", "text",
                "word_to_ix", "X", "Y"}
  /\ raw_text_count = Counter(text)
  /\ vocab = DOMAIN word_to_ix
  /\ vocab_size = Cardinality(DOMAIN word_to_ix)
  /\ X = <<>>
  /\ Y = <<>>
  /\ i = LoopStart(CONTEXT_SIZE)
  /\ reads = <<>>
  /\ pc = "loop"
  /\ err = "none"
  /\ FirstRun
  /\ NoCallers
  /\ TrainIdle
  /\ ClosestIdle

NextExamples ==
  \/ LoopStep
  \/ ToNumpy

SpecExamples == InitExamples /\ [][NextExamples]_vars

----------------------------------------------------------------------------
\* The notebook run a second time on the same input, in a fresh kernel: the
\* namespace is empty again, and the order of Counter's ties and of the set
\* vocab is again whatever the new process's string hashes make it.
Rerun ==
  /\ pc = "done"
  /\ run = 1
  /\ run' = 2
  /\ prevX' = X
  /\ prevY' = Y
  /\ defined' = {"raw_text"}
  /\ raw_text_count' = <<>>
  /\ vocab' = {}
  /\ vocab_size' = 0
  /\ text' = <<>>
  /\ word_to_ix' = <<>>
  /\ X' = <<>>
  /\ Y' = <<>>
  /\ i' = 0
  /\ reads' = <<>>
  /\ pc' = "vocab"
  /\ UNCHANGED <<inputs, err, callers, trainVars, closestVars>>

NextTwice ==
  \/ BuildVocabulary
  \/ FilterText
  \/ BuildWordToIx
  \/ LoopStep
  \/ ToNumpy
  \/ Rerun

SpecTwice == Init /\ [][NextTwice]_vars

----------------------------------------------------------------------------
\* The state the data-preparation cells end in: the arrays the completed loop
\* leaves for a text whose words are all in the vocabulary.

DatasetSize(txt, radius) == Max(0, Len(txt) - 2 * radius)

DatasetX(txt, w2i, radius) ==
  [k \in 1..DatasetSize(txt, radius) |->
     make_context_vector(Context(txt, LoopStart(radius) + (k - 1), radius).val, w2i).val]

DatasetY(txt, w2i, radius) ==
  [k \in 1..DatasetSize(txt, radius) |->
     Lookup(w2i, PyGet(txt, LoopStart(radius) + (k - 1)).val).val]

DatasetReads(txt, radius) ==
  [k \in 1..DatasetSize(txt, radius) |->
     [centre |-> LoopStart(radius) + (k - 1),
      positions |-> ContextPositions(LoopStart(radius) + (k - 1), radius)]]

\* One enumeration of a set of words: the increasing one.
SortedListing(S) == CHOOSE s \in Perms(S) : \A a, b \in DOMAIN s : a < b => s[a] < s[b]

\* The texts of the runs below: the words in turn, 1, 2, ..., 1, 2, ..., so
\* that neighbouring examples differ in context and in target.
CyclicText(n) == [k \in 1..n |-> ((k - 1) % NumWords) + 1]

Prepared ==
  /\ text \in {CyclicText(n) : n \in 1..MaxLen}
  /\ CONTEXT_SIZE \in Radii
  /\ raw_text = text
  /\ topn = Cardinality(Range(text))
  /\ defined = {"raw_text", "raw_text_count", "vocab", "vocab_size", "text",
                "word_to_ix", "X", "Y"}
  /\ raw_text_count = Counter(text)
  /\ vocab = Range(text)
  /\ vocab_size = Cardinality(Range(text))
  /\ word_to_ix = Enumerate(SortedListing(Range(text)))
  /\ X = DatasetX(text, word_to_ix, CONTEXT_SIZE)
  /\ Y = DatasetY(text, word_to_ix, CONTEXT_SIZE)
  /\ reads = DatasetReads(text, CONTEXT_SIZE)
  /\ i = Max(LoopStart(CONTEXT_SIZE), LoopStop(text, CONTEXT_SIZE))
  /\ pc = "done"
  /\ err = "none"
  /\ FirstRun

----------------------------------------------------------------------------
\* data_batcher.  A call creates a generator; its body runs from one yield to
\* the next at each next().  `st` is where the generator is suspended, `out`
\* the history of the batches it yielded (at most X.shape[0] + 1 are kept).

\* X.shape[0]
NumSamples(xs) == Len(xs)

\* list[a:b] for a, b >= 0: the slice is clamped to the list.
PySlice(list, a, b) ==
  [k \in 1..Max(0, Min(b, Len(list)) - Min(a, Len(list))) |-> list[Min(a, Len(list)) + k]]

\* X[draw, :] and Y[draw]: the rows at the indexes of draw, copied.
Take(arr, draw) == [k \in DOMAIN draw |-> arr[draw[k] + 1]]

NewGenerator(bs) == [bs |-> bs, count |-> 0, st |-> "created", out |-> <<>>]

\* count = 0 on entry, count += batch_size on resuming after the yield.
NextCount_PlusOne(g) == IF g.st = "created" THEN 0 ELSE g.count + 1

NextCount(g) == IF g.st = "created" THEN 0 ELSE g.count + g.bs

\* draw = indices[count:min(count+batch_size, X.shape[0])]
Draw_OneShort(cnt, bs, n) == PySlice(range(0, n), cnt, Min(cnt + bs, n) - 1)

Draw(cnt, bs, n) == PySlice(range(0, n), cnt, Min(cnt + bs, n))

Batch(cnt, bs, xs, ys) ==
  [draw |-> Draw(cnt, bs, NumSamples(xs)),
   x |-> Take(xs, Draw(cnt, bs, NumSamples(xs))),
   y |-> Take(ys, Draw(cnt, bs, NumSamples(xs)))]

\* next() on the generator: run to the next yield, or off the end of the loop.
GenNext(g, xs, ys) ==
  IF g.st = "exhausted" THEN g
  ELSE IF NextCount(g) < NumSamples(xs)
    THEN [g EXCEPT !.count = NextCount(g),
                   !.st = "yielded",
                   !.out = IF Len(g.out) <= NumSamples(xs)
                             THEN Append(g.out, Batch(NextCount(g), g.bs, xs, ys))
                             ELSE g.out]
    ELSE [g EXCEPT !.count = NextCount(g), !.st = "exhausted"]

\* The generator a caller iterates: its own, created by its own call, with its
\* own local count.
Cursor_Shared(c) == [callers[c].gen EXCEPT !.count = callers[1].gen.count]

Cursor(c) == callers[c].gen

\* `for ... in data_batcher(X, Y, batch_size)`: ask for the next batch.
CallNext(c) ==
  /\ callers[c].at = "next"
  /\ LET g == GenNext(Cursor(c), X, Y) IN
       callers' = [callers EXCEPT ![c] =
                     [gen |-> g, at |-> IF g.st = "yielded" THEN "body" ELSE "end"]]
  /\ UNCHANGED <<inputs, defined, vocabVars, text, word_to_ix, dataVars, pc, err,
                 rerunVars, trainVars, closestVars>>

\* The body of the caller's loop: it reads the batch it was given.
Body(c) ==
  /\ callers[c].at = "body"
  /\ callers' = [callers EXCEPT ![c].at = "next"]
  /\ UNCHANGED <<inputs, defined, vocabVars, text, word_to_ix, dataVars, pc, err,
                 rerunVars, trainVars, closestVars>>

\* Independent callers, each with a batch size of its own, over one dataset.
InitBatcher ==
  /\ Prepared
  /\ callers \in [Callers -> {[gen |-> NewGenerator(bs), at |-> "next"] : bs \in BatchSizes}]
  /\ TrainIdle
  /\ ClosestIdle

NextBatcher == \E c \in Callers : CallNext(c) \/ Body(c)

SpecBatcher == InitBatcher /\ [][NextBatcher]_vars

\* Every caller's loop keeps running.
SpecBatcherFair == SpecBatcher /\ \A c \in Callers : WF_vars(CallNext(c) \/ Body(c))

----------------------------------------------------------------------------
\* train_cbow.

\* np.ceil(X.shape[0]/float(batch_size)): ZeroDivisionError for batch_size 0.
MaxIteration(n, bs) ==
  IF bs = 0 THEN Raise
  ELSE Return(IF n % bs = 0 THEN n \div bs ELSE (n \div bs) + 1)

\* The statements of the loop body after the batch is wrapped, in the order
\* the body runs them: each names the statement that follows it.
NextPhase_StepBeforeBackward(p) ==
  CASE p = "zero_grad" -> "forward"
    [] p = "forward" -> "loss"
    [] p = "loss" -> "step"
    [] p = "step" -> "backward"
    [] p = "backward" -> "record"
    [] OTHER -> "for"

NextPhase(p) ==
  CASE p = "zero_grad" -> "forward"
    [] p = "forward" -> "loss"
    [] p = "loss" -> "backward"
    [] p = "backward" -> "step"
    [] p = "step" -> "record"
    [] OTHER -> "for"

\* The batch the loop body is working on: the index of the batch within the
\* epoch and the indexes it draws.
CurrentBatch ==
  [epoch |-> epoch,
   batch |-> Len(callers[1].gen.out) - 1,
   draw |-> callers[1].gen.out[Len(callers[1].gen.out)].draw]

trainFrame == <<inputs, defined, vocabVars, text, word_to_ix, dataVars, pc,
                rerunVars, closestVars>>

\* for epoch in range(num_epochs), entering the loop body: max_iteration is
\* computed, then data_batcher(X, Y, batch_size) is called.
EpochStart ==
  /\ tpc = "epoch"
  /\ epoch < num_epochs
  /\ MaxIteration(NumSamples(X), batch_size).ok
  /\ callers' = <<[gen |-> NewGenerator(batch_size), at |-> "next"]>>
  /\ tpc' = "for"
  /\ UNCHANGED <<num_epochs, batch_size, epoch, losses, oplog, err, trainFrame>>

\* ... the same, when computing max_iteration raises.
EpochFail ==
  /\ tpc = "epoch"
  /\ epoch < num_epochs
  /\ ~MaxIteration(NumSamples(X), batch_size).ok
  /\ tpc' = "failed"
  /\ err' = "ZeroDivisionError"
  /\ UNCHANGED <<num_epochs, batch_size, epoch, losses, oplog, callers, trainFrame>>

\* for context, target in bar(data_batcher(X, Y, batch_size)): the next batch,
\* or the end of the epoch when the generator is exhausted.
NextBatch ==
  /\ tpc = "for"
  /\ LET g == GenNext(Cursor(1), X, Y) IN
       IF g.st = "yielded"
         THEN /\ callers' = <<[gen |-> g, at |-> "body"]>>
              /\ tpc' = "zero_grad"
              /\ epoch' = epoch
         ELSE /\ callers' = <<[gen |-> g, at |-> "end"]>>
              /\ tpc' = "epoch"
              /\ epoch' = epoch + 1
  /\ UNCHANGED <<num_epochs, batch_size, losses, oplog, err, trainFrame>>

\* One statement of the loop body on the model, the loss or the optimizer.
TrainStep(p) ==
  /\ oplog' = Append(oplog, [op |-> p, epoch |-> epoch, batch |-> CurrentBatch.batch])
  /\ tpc' = NextPhase(p)
  /\ UNCHANGED <<num_epochs, batch_size, epoch, losses, callers, err, trainFrame>>

\* optimizer.zero_grad()
ZeroGrad ==
  /\ tpc = "zero_grad"
  /\ TrainStep("zero_grad")

\* outputs = model(x)
Forward ==
  /\ tpc = "forward"
  /\ TrainStep("forward")

\* loss = loss_function(outputs, y)
Loss ==
  /\ tpc = "loss"
  /\ TrainStep("loss")

\* loss.backward()
Backward ==
  /\ tpc = "backward"
  /\ TrainStep("backward")

\* optimizer.step()
OptimizerStep ==
  /\ tpc = "step"
  /\ TrainStep("step")

\* losses.append(loss.data.numpy()), the last statement of the loop body.
RecordLoss_ConsumingBatch ==
  /\ tpc = "record"
  /\ losses' = Append(losses, CurrentBatch)
  /\ oplog' = Append(oplog, [op |-> "record", epoch |-> epoch, batch |-> CurrentBatch.batch])
  /\ tpc' = NextPhase("record")
  /\ callers' = [callers EXCEPT ![1].at = "next"]
  /\ X' = [k \in DOMAIN X |-> IF k - 1 \in Range(CurrentBatch.draw) THEN <<>> ELSE X[k]]
  /\ UNCHANGED <<num_epochs, batch_size, epoch, err, inputs, defined, vocabVars,
                 text, word_to_ix, Y, i, reads, pc, rerunVars, closestVars>>

RecordLoss ==
  /\ tpc = "record"
  /\ losses' = Append(losses, CurrentBatch)
  /\ oplog' = Append(oplog, [op |-> "record", epoch |-> epoch, batch |-> CurrentBatch.batch])
  /\ tpc' = NextPhase("record")
  /\ callers' = [callers EXCEPT ![1].at = "next"]
  /\ UNCHANGED <<num_epochs, batch_size, epoch, err, trainFrame>>

\* return losses, once range(num_epochs) is exhausted.
ReturnLosses ==
  /\ tpc = "epoch"
  /\ epoch >= num_epochs
  /\ tpc' = "returned"
  /\ UNCHANGED <<num_epochs, batch_size, epoch, losses, oplog, callers, err, trainFrame>>

\* train_cbow(model, num_epochs, batch_size) called on the built dataset.
InitTrain ==
  /\ Prepared
  /\ NoCallers
  /\ ClosestIdle
  /\ num_epochs \in 0..MaxEpochs
  /\ batch_size \in BatchSizes
  /\ epoch = 0
  /\ tpc = "epoch"
  /\ losses = <<>>
  /\ oplog = <<>>

NextTrain ==
  \/ EpochStart
  \/ EpochFail
  \/ NextBatch
  \/ ZeroGrad
  \/ Forward
  \/ Loss
  \/ Backward
  \/ OptimizerStep
  \/ RecordLoss
  \/ ReturnLosses

SpecTrain == InitTrain /\ [][NextTrain]_vars

----------------------------------------------------------------------------
\* closest_n_words.

\* sorted(scores, key=score, reverse=True): by decreasing score; the sort is
\* stable, so pairs of equal score keep the order they were appended in.
SortedScores(sc) ==
  LET p == CHOOSE q \in Perms(DOMAIN sc) :
             \A a, b \in DOMAIN q : a < b =>
               \/ sc[q[a]][1] > sc[q[b]][1]
               \/ sc[q[a]][1] = sc[q[b]][1] /\ q[a] < q[b]
  IN [k \in DOMAIN sc |-> sc[p[k]]]

\* list(zip(*pairs))[1]: the tuple of the words; IndexError when pairs is empty.
ZipSecond(pairs) ==
  IF pairs = <<>> THEN Raise ELSE Return([k \in DOMAIN pairs |-> pairs[k][2]])

\* list(zip(*(sorted(...)[:n])))[1]
NClosest(sc, n) == ZipSecond(PySlice(SortedScores(sc), 0, n))

closestFrame == <<inputs, defined, vocabVars, text, word_to_ix, dataVars, pc,
                  rerunVars, callers, trainVars>>

\* word_vec = model.word2vec(word), which looks word up in word_to_ix; scores=[]
QueryVector ==
  /\ cpc = "word_vec"
  /\ IF Lookup(word_to_ix, query).ok
       THEN cpc' = "for" /\ err' = err
       ELSE cpc' = "failed" /\ err' = "KeyError"
  /\ scores' = <<>>
  /\ UNCHANGED <<query, topk, sim, todo, n_closest, closestFrame>>

\* for v in vocab: one iteration; a set is visited in no particular order.
Visit ==
  /\ cpc = "for"
  /\ \E v \in todo :
       /\ todo' = todo \ {v}
       /\ scores' = IF v # query THEN Append(scores, <<sim[v], v>>) ELSE scores
  /\ UNCHANGED <<query, topk, sim, n_closest, cpc, err, closestFrame>>

\* n_closest = list(zip(*(sorted(...)[:n])))[1]; return n_closest
Select ==
  /\ cpc = "for"
  /\ todo = {}
  /\ LET r == NClosest(scores, topk) IN
       IF r.ok
         THEN n_closest' = r.val /\ cpc' = "returned" /\ err' = err
         ELSE n_closest' = n_closest /\ cpc' = "failed" /\ err' = "IndexError"
  /\ UNCHANGED <<query, topk, sim, todo, scores, closestFrame>>

\* closest_n_words(model, vocab, word, n) for a word of the vocabulary, one
\* text per vocabulary size, the model's cosine scores being any numbers.
InitClosest ==
  /\ Prepared
  /\ Len(text) <= NumWords
  /\ NoCallers
  /\ TrainIdle
  /\ query \in vocab
  /\ topk \in 0..MaxClosest
  /\ sim \in [vocab -> 0..MaxScore]
  /\ todo = vocab
  /\ scores = <<>>
  /\ n_closest = <<>>
  /\ cpc = "word_vec"

NextClosest ==
  \/ QueryVector
  \/ Visit
  \/ Select

SpecClosest == InitClosest /\ [][NextClosest]_vars

----------------------------------------------------------------------------
\* Vocabulary used in the properties below.

W == CONTEXT_SIZE

Occurrences(tokens, w) == Cardinality({p \in DOMAIN tokens : tokens[p] = w})

Distinct(tokens) == {tokens[p] : p \in DOMAIN tokens}

\* The Python indexes that have W tokens on each side.
ValidCentres == {c \in 0..(Len(text) - 1) : W <= c /\ c < Len(text) - W}

Known(w) == w \in DOMAIN word_to_ix

\* The token at Python index p of the filtered text.
TokenAt(p) == text[p + 1]

----------------------------------------------------------------------------
\* C1: for each index c with W <= c < len - W, in increasing order of c, the
\* loop emits one example whose context is the ids of the tokens at
\* c-W, ..., c-1, c+1, ..., c+W in that order and whose target is the id of
\* the token at c; when the loop ends there is one example per such index.
C1_WindowExamples ==
  /\ Len(X) = Len(Y)
  /\ \A k \in 1..Len(X) :
       LET c == W + (k - 1) IN
         /\ c \in ValidCentres
         /\ Len(X[k]) = 2 * W
         /\ \A m \in 1..W :
              /\ X[k][m] = word_to_ix[TokenAt(c - W + (m - 1))]
              /\ X[k][W + m] = word_to_ix[TokenAt(c + m)]
         /\ Y[k] = word_to_ix[TokenAt(c)]
  /\ pc = "done" => Len(X) = Cardinality(ValidCentres)

\* Five tokens and radius 2: exactly one example, the ids of the tokens at
\* 0, 1, 3, 4 as context and the id of the token at 2 as target.
C1_Witness ==
  /\ pc = "done"
  /\ W = 2
  /\ text = <<1, 2, 3, 1, 2>>
  /\ word_to_ix = (1 :> 0) @@ (2 :> 1) @@ (3 :> 2)
  /\ X = << <<0, 1, 0, 1>> >>
  /\ Y = <<2>>

\* C2: a filtered sequence of length L gives exactly max(0, L - 2W) examples;
\* every context has exactly 2W ids, read at 2W different positions within
\* W of the centre and never at the centre itself.
C2_CountAndNeighbours ==
  /\ pc = "done" => Len(X) = Max(0, Len(text) - 2 * W) /\ Len(Y) = Max(0, Len(text) - 2 * W)
  /\ Len(reads) = Len(X)
  /\ \A k \in 1..Len(X) :
       LET c == reads[k].centre
           pos == reads[k].positions
       IN /\ Len(X[k]) = 2 * W
          /\ Len(pos) = 2 * W
          /\ \A m \in 1..Len(pos) :
               /\ pos[m] # c
               /\ c - W <= pos[m] /\ pos[m] <= c + W
               /\ 0 <= pos[m] /\ pos[m] < Len(text)
               /\ m <= Len(X[k]) /\ X[k][m] = word_to_ix[TokenAt(pos[m])]
          /\ \A m, n \in 1..Len(pos) : m # n => pos[m] # pos[n]

C2_Witness ==
  /\ pc = "done"
  /\ W = 1
  /\ Len(text) = 5
  /\ Len(X) = 3

\* C3: the filtered text is the raw text restricted to the positions holding
\* a vocabulary word: a subsequence in the original order, all of whose
\* elements are vocabulary words, with no occurrence of a vocabulary word
\* missing.
C3_FilterSubsequence ==
  "text" \in defined =>
    LET kept == {p \in DOMAIN raw_text : raw_text[p] \in vocab} IN
      /\ Len(text) = Cardinality(kept)
      /\ \A k \in DOMAIN text : text[k] \in vocab
      /\ \A p \in kept : text[Cardinality({q \in kept : q <= p})] = raw_text[p]
      /\ \A w \in vocab : Occurrences(text, w) = Occurrences(raw_text, w)

\* A word outside the vocabulary is dropped from between two kept words.
C3_Witness ==
  /\ "text" \in defined
  /\ \E p, q, r \in DOMAIN raw_text :
       /\ p < q /\ q < r
       /\ raw_text[p] \in vocab /\ raw_text[q] \notin vocab /\ raw_text[r] \in vocab
  /\ Len(text) >= 3

\* C4: for every token sequence and every K >= 1 the vocabulary has exactly
\* min(K, number of distinct tokens) entries, without error, and word_to_ix
\* is a bijection from the vocabulary onto [0, size).
C4_VocabularySize ==
  (topn >= 1 /\ pc # "vocab") =>
    /\ err = "none"
    /\ "vocab" \in defined
    /\ vocab_size = Min(topn, Cardinality(Distinct(raw_text)))
    /\ Cardinality(vocab) = vocab_size
    /\ "word_to_ix" \in defined =>
         /\ DOMAIN word_to_ix = vocab
         /\ {word_to_ix[w] : w \in vocab} = 0..(vocab_size - 1)
         /\ \A v, w \in vocab : v # w => word_to_ix[v] # word_to_ix[w]

\* C5: no word left out of the vocabulary occurs strictly more often in the
\* raw text than a selected word, and only words of the raw text are selected.
C5_MostFrequent ==
  "vocab" \in defined =>
    /\ vocab \subseteq Distinct(raw_text)
    /\ \A out \in Distinct(raw_text) \ vocab : \A sel \in vocab :
         Occurrences(raw_text, out) <= Occurrences(raw_text, sel)

\* A strictly rarer word was left out.
C5_Witness ==
  /\ "vocab" \in defined
  /\ \E out \in Distinct(raw_text) \ vocab : \E sel \in vocab :
       Occurrences(raw_text, out) < Occurrences(raw_text, sel)

\* C6 as stated: a sequence shorter than 2W + 1 makes the loop fail with
\* InsufficientDataError instead of giving an empty dataset.
C6_FailsWhenShort ==
  (Len(text) < 2 * W + 1 /\ pc # "loop") =>
    /\ pc = "failed"
    /\ err = "InsufficientDataError"

\* C6 amended: on a sequence shorter than 2W + 1, the empty one included, the
\* loop raises nothing and the dataset is empty.
C6_EmptyWhenShort ==
  Len(text) < 2 * W + 1 =>
    /\ pc \in {"loop", "done"}
    /\ err = "none"
    /\ X = <<>>
    /\ Y = <<>>
    /\ pc = "loop" => i >= Len(text) - W

C6_Witness ==
  /\ pc = "done"
  /\ text # <<>>
  /\ Len(text) < 2 * W + 1
  /\ \E p \in DOMAIN text : ~Known(text[p])
  /\ X = <<>>
  /\ Y = <<>>

\* C7 as stated: a filtered sequence of length exactly 2W gives exactly one
\* example, whose centre is index W.
C7_OneExampleAt2W ==
  (pc = "done" /\ Len(text) = 2 * W) =>
    /\ Len(X) = 1
    /\ Len(Y) = 1
    /\ reads[1].centre = W

\* C7 amended: a filtered sequence of length exactly 2W + 1 gives exactly one
\* example, whose centre is index W; one of length exactly 2W gives none.
C7_OneExampleAt2WPlus1 ==
  /\ (pc = "done" /\ Len(text) = 2 * W + 1) =>
       /\ Len(X) = 1
       /\ Len(Y) = 1
       /\ reads[1].centre = W
       /\ Y[1] = word_to_ix[TokenAt(W)]
  /\ (pc = "done" /\ Len(text) = 2 * W) => X = <<>> /\ Y = <<>>
  /\ "X" \in defined => pc # "failed"

C7_Witness ==
  /\ pc = "done"
  /\ W = 2
  /\ Len(text) = 2 * W + 1
  /\ Len(X) = 1
  /\ reads[1].centre = 2

\* C8 as stated: for K <= 0 the vocabulary cell fails with InvalidSizeError
\* and binds no vocabulary.
C8_InvalidSizeError ==
  (topn <= 0 /\ pc # "vocab") =>
    /\ pc = "failed"
    /\ err = "InvalidSizeError"
    /\ "vocab" \notin defined

\* C8 amended: for K <= 0, whatever the token sequence, the vocabulary cell
\* fails and binds no vocabulary; the failure is the IndexError of indexing
\* the empty selection.
C8_FailsOnNonPositiveSize ==
  (topn <= 0 /\ pc # "vocab") =>
    /\ pc = "failed"
    /\ err = "IndexError"
    /\ "vocab" \notin defined
    /\ "vocab_size" \notin defined

C8_Witness ==
  /\ topn = 0
  /\ raw_text # <<>>
  /\ pc = "failed"
  /\ err = "IndexError"

\* Some token of the window around the centre c, centre included, is no key.
WindowHasUnknown(c) ==
  \E p \in (c - W)..(c + W) : 0 <= p /\ p < Len(text) /\ ~Known(TokenAt(p))

\* C9: looking up a word that is no key of word_to_ix, as a context word or
\* as the target, fails at once with the lookup error (KeyError) and yields
\* no id: every id in X and Y is the id of a known word, the loop never gets
\* past a centre whose window holds an unknown word, and a failed run stopped
\* at such a centre.
C9_UnknownTokenFails ==
  /\ \A k \in 1..Len(X) : \A m \in 1..Len(X[k]) :
       /\ Known(TokenAt(reads[k].positions[m]))
       /\ X[k][m] = word_to_ix[TokenAt(reads[k].positions[m])]
  /\ \A k \in 1..Len(Y) :
       /\ Known(TokenAt(reads[k].centre))
       /\ Y[k] = word_to_ix[TokenAt(reads[k].centre)]
  /\ \A c \in ValidCentres : WindowHasUnknown(c) => i <= c /\ pc # "done"
  /\ pc = "failed" =>
       /\ err = "KeyError"
       /\ i \in ValidCentres
       /\ WindowHasUnknown(i)
       /\ Len(Y) = i - W

\* The lookup fails at a later centre, after an example was built.
C9_Witness ==
  /\ pc = "failed"
  /\ err = "KeyError"
  /\ Len(Y) >= 1
  /\ ~Known(TokenAt(i + W))

\* C10: when the loop fails part-way, X and Y hold nothing (or else the full
\* dataset), and they never differ in length.
C10_NoPartialResult ==
  /\ Len(X) = Len(Y)
  /\ pc = "failed" => X = <<>> /\ Y = <<>>

\* C11: the notebook run twice on the same input gives the same dataset, the
\* same ids in the same order, also when words tie in frequency at the cut-off
\* and whatever order the set vocab is enumerated in.
C11_SameDatasetTwice ==
  (run = 2 /\ pc = "done") => X = prevX /\ Y = prevY

\* C12: on the output of the filter, with the same vocabulary, no lookup of
\* the loop fails, every context id and every target id lies in
\* [0, vocab_size), and a word filtered out of the raw text is never read as
\* a context word or a target.
C12_FilteredTextIsSafe ==
  /\ err # "KeyError"
  /\ pc = "failed" => "text" \notin defined
  /\ \A k \in 1..Len(X) : \A m \in 1..Len(X[k]) :
       /\ 0 <= X[k][m] /\ X[k][m] < vocab_size
       /\ TokenAt(reads[k].positions[m]) \in vocab
       /\ TokenAt(reads[k].positions[m]) \in DOMAIN word_to_ix
  /\ \A k \in 1..Len(Y) :
       /\ 0 <= Y[k] /\ Y[k] < vocab_size
       /\ TokenAt(reads[k].centre) \in vocab
       /\ \E w \in vocab : word_to_ix[w] = Y[k]

\* A dataset was built from a text the filter shortened.
C12_Witness ==
  /\ pc = "done"
  /\ Len(text) < Len(raw_text)
  /\ Len(X) >= 2
  /\ Len(Y) = Len(X)

----------------------------------------------------------------------------
\* Vocabulary of the properties about data_batcher.

N == Len(X)

Out(c) == callers[c].gen.out

BatchSizeOf(c) == callers[c].gen.bs

LastOf(seq) == seq[Len(seq)]

\* What data_batcher yields to a caller that runs alone, for a batch size
\* bs >= 1: batch b holds the indexes (b-1)*bs .. min(b*bs, N) - 1.
SoloBatches(bs) ==
  [b \in 1..((N + bs - 1) \div bs) |->
     LET d == [j \in 1..(Min(b * bs, N) - (b - 1) * bs) |-> (b - 1) * bs + (j - 1)] IN
       [draw |-> d,
        x |-> [j \in DOMAIN d |-> X[d[j] + 1]],
        y |-> [j \in DOMAIN d |-> Y[d[j] + 1]]]]

IsPrefix(s, t) == Len(s) <= Len(t) /\ \A k \in 1..Len(s) : s[k] = t[k]

\* C13: for batch_size >= 1 the batches are consecutive, pairwise disjoint index
\* slices that together cover every example exactly once in dataset order, and
\* each batch pairs row j of X with entry j of Y for the same indexes.
C13_BatchesPartitionDataset ==
  \A c \in DOMAIN callers : BatchSizeOf(c) >= 1 =>
    /\ \A b \in 1..Len(Out(c)) :
         LET d == Out(c)[b].draw IN
           /\ Len(d) >= 1
           /\ \A j \in 1..Len(d) : d[j] = d[1] + (j - 1)
           /\ d[1] = (IF b = 1 THEN 0 ELSE LastOf(Out(c)[b - 1].draw) + 1)
           /\ LastOf(d) <= N - 1
           /\ Len(Out(c)[b].x) = Len(d)
           /\ Len(Out(c)[b].y) = Len(d)
           /\ \A j \in 1..Len(d) :
                /\ Out(c)[b].x[j] = X[d[j] + 1]
                /\ Out(c)[b].y[j] = Y[d[j] + 1]
    /\ callers[c].at = "end" =>
         IF N = 0 THEN Out(c) = <<>>
         ELSE Out(c) # <<>> /\ LastOf(LastOf(Out(c)).draw) = N - 1

\* Three examples in batches of two: indexes 0, 1 and then 2.
C13_Witness ==
  \E c \in DOMAIN callers :
    /\ callers[c].at = "end"
    /\ BatchSizeOf(c) = 2
    /\ N = 3
    /\ Len(Out(c)) = 2
    /\ Out(c)[1].draw = <<0, 1>>
    /\ Out(c)[2].draw = <<2>>
    /\ Out(c)[2].x = <<X[3]>>
    /\ Out(c)[2].y = <<Y[3]>>

\* C15: callers iterating data_batcher over the same dataset at the same time
\* each get, under every interleaving, the batches they would get alone: what a
\* caller has received is always a prefix of its solo sequence, and all of it
\* when its loop has ended.
C15_CallersIndependent ==
  \A c \in DOMAIN callers :
    IF BatchSizeOf(c) >= 1
      THEN /\ IsPrefix(Out(c), SoloBatches(BatchSizeOf(c)))
           /\ callers[c].at = "end" => Out(c) = SoloBatches(BatchSizeOf(c))
           /\ callers[c].gen.st = "yielded" =>
                callers[c].gen.count = (Len(Out(c)) - 1) * BatchSizeOf(c)
      ELSE /\ \A b \in 1..Len(Out(c)) : Out(c)[b] = [draw |-> <<>>, x |-> <<>>, y |-> <<>>]
           /\ callers[c].gen.count = 0
           /\ N > 0 => callers[c].at # "end"

\* Two callers with different batch sizes, one finished, one part-way.
C15_Witness ==
  /\ N = 3
  /\ \E c, d \in DOMAIN callers :
       /\ c # d
       /\ BatchSizeOf(c) = 1 /\ BatchSizeOf(d) = 2
       /\ callers[c].at = "body" /\ Len(Out(c)) = 2
       /\ callers[d].at = "end" /\ Len(Out(d)) = 2

\* C16: for batch_size >= 1 data_batcher yields exactly ceil(N / batch_size)
\* batches, the value train_cbow computes as max_iteration; every batch has
\* batch_size examples except possibly the last, which has N mod batch_size
\* when that is not zero, and no batch is empty.
C16_BatchCountAndSizes ==
  \A c \in DOMAIN callers : BatchSizeOf(c) >= 1 =>
    /\ \A b \in 1..Len(Out(c)) :
         /\ 1 <= Len(Out(c)[b].draw)
         /\ Len(Out(c)[b].draw) <= BatchSizeOf(c)
         /\ b < Len(Out(c)) => Len(Out(c)[b].draw) = BatchSizeOf(c)
    /\ callers[c].at = "end" =>
         /\ MaxIteration(N, BatchSizeOf(c)).ok
         /\ Len(Out(c)) = MaxIteration(N, BatchSizeOf(c)).val
         /\ Len(Out(c)) * BatchSizeOf(c) >= N
         /\ (Len(Out(c)) - 1) * BatchSizeOf(c) < N \/ N = 0
         /\ Out(c) # <<>> =>
              Len(LastOf(Out(c)).draw) =
                (IF N % BatchSizeOf(c) = 0 THEN BatchSizeOf(c) ELSE N % BatchSizeOf(c))

\* Three examples in batches of two: two batches, the last of one example.
C16_Witness ==
  \E c \in DOMAIN callers :
    /\ callers[c].at = "end"
    /\ BatchSizeOf(c) = 2
    /\ N = 3
    /\ Len(Out(c)) = 2
    /\ Len(Out(c)[1].draw) = 2
    /\ Len(Out(c)[2].draw) = 1

\* C17: for every dataset size N >= 0 and every batch_size, data_batcher
\* eventually stops yielding: every caller that keeps iterating sees its
\* generator exhausted and its loop end.
C17_AlwaysStops ==
  \A c \in Callers : <>(callers[c].gen.st = "exhausted" /\ callers[c].at = "end")

\* C14: once built, the Dataset (X, Y), the vocabulary with its id mapping and
\* the filtered text are never mutated: every step of data_batcher and of the
\* train_cbow loop leaves them unchanged, over all batches and epochs.
C14_DatasetNeverMutated ==
  [][UNCHANGED <<X, Y, vocab, vocab_size, word_to_ix, text>>]_vars

\* Two epochs of two batches have run and the dataset is as it was built.
C14_Witness ==
  /\ tpc = "returned"
  /\ num_epochs = 2
  /\ N = 3
  /\ Len(losses) >= 4
  /\ X = DatasetX(text, word_to_ix, CONTEXT_SIZE)
  /\ Y = DatasetY(text, word_to_ix, CONTEXT_SIZE)
  /\ vocab = Range(text)

\* The statements of the loop body, in the order the claim gives them.
BodyOrder == <<"zero_grad", "forward", "loss", "backward", "step", "record">>

\* C18: train_cbow runs, for every batch, zero_grad, forward, loss, backward,
\* optimizer step, record loss in this order, one batch after the other and one
\* epoch after the other, with the same batches in the same order in every
\* epoch; on return losses has num_epochs * ceil(N / batch_size) entries in
\* epoch-then-batch order.
C18_TrainingOrder ==
  LET B == MaxIteration(N, batch_size) IN
    /\ oplog # <<>> => B.ok /\ B.val >= 1
    /\ \A k \in 1..Len(oplog) :
         oplog[k] = [op |-> BodyOrder[((k - 1) % 6) + 1],
                     epoch |-> ((k - 1) \div 6) \div B.val,
                     batch |-> ((k - 1) \div 6) % B.val]
    /\ Len(losses) = Len(oplog) \div 6
    /\ \A k \in 1..Len(losses) :
         losses[k] = [epoch |-> (k - 1) \div B.val,
                      batch |-> (k - 1) % B.val,
                      draw |-> SoloBatches(batch_size)[((k - 1) % B.val) + 1].draw]
    /\ tpc = "returned" =>
         Len(losses) = (IF num_epochs = 0 THEN 0 ELSE num_epochs * B.val)

\* Two epochs over three examples in batches of two: four losses.
C18_Witness ==
  /\ tpc = "returned"
  /\ num_epochs = 2
  /\ batch_size = 2
  /\ N = 3
  /\ Len(losses) = 4
  /\ Len(oplog) = 24
  /\ losses[2].draw = <<2>>
  /\ losses[3] = [epoch |-> 1, batch |-> 0, draw |-> <<0, 1>>]

ScoreOf(w) == sim[w]

\* C19: for every vocabulary, every query word in it and every n >= 0,
\* closest_n_words returns min(n, |vocab| - 1) distinct words of the
\* vocabulary, never the query word, in non-increasing order of score.
C19_ClosestWords ==
  /\ cpc # "failed"
  /\ cpc = "returned" =>
       /\ Len(n_closest) = Min(topk, Cardinality(vocab) - 1)
       /\ \A a, b \in DOMAIN n_closest : a # b => n_closest[a] # n_closest[b]
       /\ \A a \in DOMAIN n_closest : n_closest[a] \in vocab \ {query}
       /\ \A a, b \in DOMAIN n_closest :
            a < b => ScoreOf(n_closest[a]) >= ScoreOf(n_closest[b])

====
